---- MODULE Spec2Model ----
(***************************************************************************)
(* backman: the target execution engine.                                   *)
(*                                                                         *)
(* The engine is one process (main) that forks children: hook wrappers     *)
(* (Target::SystemCommand::run), the archiver (tar) and the cipher (gpg).  *)
(* The model follows main's run loop (main.cpp 250-255) statement by       *)
(* statement; children are separate processes whose steps interleave with  *)
(* the engine's.                                                           *)
(***************************************************************************)
EXTENDS Integers, Sequences, FiniteSets, TLC

(* ------------------------------ bounds --------------------------------- *)

\* most hooks in one batch (before_hook / end_hook values of one target)
MaxHooks == 4
\* largest value of options.jobs tried
MaxJobs == 2
\* most targets in the resolved vector
MaxTargets == 2
\* longest passphrase typed by the user
MaxPassLen == 2

(* --------------------------- program constants ------------------------- *)

\* pid_t cpid = -1 (never assigned)
NoPid == -1
\* the sentinel SystemCommand::wait returns for a failed Job
FailSentinel == -1
\* the signal the cipher child sends to the archiver when its exec fails
SIGTERM == 15

(* ------------------------------ wait status ---------------------------- *)

\* <sys/wait.h> on Linux: the low 7 bits are the terminating signal, the
\* next byte the exit code.
WTERMSIG(s) == s % 128
WEXITSTATUS(s) == (s \div 256) % 256
WIFEXITED(s) == WTERMSIG(s) = 0
WIFSIGNALED(s) == WTERMSIG(s) >= 1 /\ WTERMSIG(s) <= 126

\* the wait status of a process that called exit(v): only v & 0377 is kept
ExitedStatus(v) == (v % 256) * 256
\* the wait status of a process killed by signal g
SignaledStatus(g) == g

RECURSIVE NatOr(_, _)
NatOr(a, b) ==
  IF a = 0 THEN b
  ELSE IF b = 0 THEN a
  ELSE (IF a % 2 = 1 \/ b % 2 = 1 THEN 1 ELSE 0) + 2 * NatOr(a \div 2, b \div 2)

\* C's a | b on int, for the values that occur: naturals and -1 (all bits set)
BitOr(a, b) == IF a < 0 \/ b < 0 THEN -1 ELSE NatOr(a, b)

(* ------------------------------- inputs -------------------------------- *)

\* how a hook ended: the shell run by system() exited with code n or was
\* killed by signal n, or the wrapper process itself was killed by signal n
HookOutcomes ==
  { [how |-> "exit", n |-> 0], [how |-> "exit", n |-> 1], [how |-> "signal", n |-> 9],
    [how |-> "killed", n |-> 9] }

\* what system() returns for that outcome: the shell's wait status
SystemReturn(o) == IF o.how = "exit" THEN ExitedStatus(o.n) ELSE SignaledStatus(o.n)

\* the wait status of the hook wrapper process: std::exit(system(command))
HookWrapperStatus(o) ==
  IF o.how = "killed" THEN SignaledStatus(o.n) ELSE ExitedStatus(SystemReturn(o))

\* a hook failed: it exited nonzero or was killed by a signal
OutcomeIsFailure(o) == ~(o.how = "exit" /\ o.n = 0)

\* the bytes a passphrase is made of, and the newline the engine appends
PassBytes == {"a"}
NL == "\n"

RECURSIVE SeqsUpTo(_, _)
SeqsUpTo(S, n) ==
  IF n = 0 THEN {<<>>}
  ELSE LET shorter == SeqsUpTo(S, n - 1)
       IN shorter \cup {Append(s, x) : s \in {t \in shorter : Len(t) = n - 1}, x \in S}

\* what set_passphrase can store: any line, the empty one included
Passphrases == SeqsUpTo(PassBytes, MaxPassLen)

\* values of options.jobs: std::stoi accepts zero and negative numbers too
JobValues == -1 .. MaxJobs

(* ---------------------------- file descriptors ------------------------- *)

\* an open file description: the terminal, or one end of a pipe of target t
Tty == [t |-> 0, p |-> "tty", e |-> "rw"]
PipeEnd(t, p, e) == [t |-> t, p |-> p, e |-> e]

StdFds == (0 :> Tty) @@ (1 :> Tty) @@ (2 :> Tty)

LowestFree(tab) == CHOOSE n \in 0 .. Cardinality(DOMAIN tab) : n \notin DOMAIN tab

\* close(fd)
Close(tab, fd) == [n \in (DOMAIN tab) \ {fd} |-> tab[n]]
\* dup2(old, new)
Dup2(tab, old, new) == (new :> tab[old]) @@ Close(tab, new)
\* the descriptor numbers pipe() returns: [0] the read end, [1] the write end
PipeFds(tab) ==
  LET r == LowestFree(tab)
      w == LowestFree((r :> Tty) @@ tab)
  IN <<r, w>>
\* the table after pipe() made pipe p of target t
WithPipe(tab, t, p) ==
  LET ends == PipeFds(tab)
  IN (ends[1] :> PipeEnd(t, p, "r")) @@ (ends[2] :> PipeEnd(t, p, "w")) @@ tab

Holds(tab, d) == \E n \in DOMAIN tab : tab[n] = d

(* ------------------------------- state --------------------------------- *)

VARIABLES
  jobs,              \* options.jobs
  ntargets,          \* targets.size() after resolution
  tidx,              \* how many targets the run loop has taken (the current one)
  target,            \* the loop's copy of the current Target
  pc,                \* where the engine process is
  exit_status,       \* the engine's exit status, -1 while it runs
  batch,             \* which hook batch run_hooks is running: "before" / "end"
  hooks,             \* run_hooks' by-value copy of the hook vector
  num_hooks,         \* run_hooks: int num_hooks
  running_children,  \* run_hooks: int running_children
  status,            \* run_hooks: int status
  i,                 \* run_hooks / wait_main loop index (0-based, as in the code)
  hooks_ret,         \* run_hooks' return value, until main drops it
  procs,             \* the engine's children not yet reaped: pid -> process
  fds,               \* the engine's descriptor table
  pipefds,           \* run_main: tar_and_gpg_pipefds and passphrase_pipefds
  secret_buf,        \* bytes in the current secret pipe, written and not yet read
  out_stdout,        \* bytes written to standard output in the current phase
  out_stderr,        \* messages logged to standard error in the current phase
  obs,               \* observations kept for the properties (not program state)
  argc,              \* main: int argc
  options,           \* the global Options, as far as main reads it back
  parsed_config,     \* the global INI_Data: the sections ini_parse returned
  section,           \* main's section loop: its copy of the current INI_Section
  nsec,              \* how many sections of parsed_config that loop has taken
  targets,           \* main: std::vector<Target> targets
  cli,               \* what the command line asked for (not program state)
  call               \* a library function under evaluation: argument and result

vars == << jobs, ntargets, tidx, target, pc, exit_status, batch, hooks, num_hooks,
           running_children, status, i, hooks_ret, procs, fds, pipefds, secret_buf,
           out_stdout, out_stderr, obs, argc, options, parsed_config, section, nsec,
           targets, cli, call >>

hookVars == << hooks, num_hooks, running_children, status, i >>
ioVars == << fds, pipefds, secret_buf, out_stdout, out_stderr >>
\* the options and what main's start-up leaves behind: nothing below the run
\* loop writes them
cfgVars == << jobs, ntargets, argc, options, parsed_config, section, nsec, targets, cli,
             call >>

\* a SystemCommand as constructed (target.hpp 60-65)
NewSystemCommand ==
  [failed |-> FALSE, ran |-> FALSE, exited |-> FALSE, exit_code |-> 0, cpid |-> NoPid]

\* a Target as main's loop copies it: the fields run_main and wait_main use
\* (set_passphrase stores a passphrase only for an encrypted target).  The hook
\* vectors are read only where run_hooks copies them; their sizes are drawn there.
Targets ==
  { t \in [encrypt : BOOLEAN, passphrase : Passphrases, children : {<<>>}] :
      t.encrypt \/ t.passphrase = <<>> }

NoTarget == [encrypt |-> FALSE, passphrase |-> <<>>, children |-> <<>>]

\* the observations of one hook batch
NewBatchObs ==
  [ any_failed |-> FALSE,    \* some hook of the batch failed or could not be spawned
    rewaited |-> FALSE,      \* waitpid was called for a Job already reaped
    waited_nopid |-> FALSE ] \* waitpid was called for a Job whose fork failed

\* the observations of one target's run
NewTargetObs ==
  [ given_pass |-> <<>>,     \* the passphrase set_passphrase stored
    secret_written |-> <<>>, \* every byte written to the secret pipe
    secret_read |-> <<>>,    \* every byte the cipher read from it
    secret_eof |-> FALSE,    \* the cipher read end-of-input from it
    b |-> NewBatchObs ]

\* struct Options as constructed (utils.hpp 9-16)
NoOptions == [targets |-> <<>>, all_targets |-> FALSE, destdir |-> <<>>]
\* a section: its name in brackets and, for a target section, the value of
\* its name key; the unnamed global section comes first
NoSection == [name |-> "", target_name |-> <<>>]
NoCli == [all_with_other |-> FALSE, duplicate |-> FALSE, unresolved |-> FALSE,
          help |-> FALSE]
NoCall == [fn |-> "none"]

\* main's start-up is over (or not modelled): its variables are at rest
StartUpOver ==
  /\ argc = 0
  /\ options = NoOptions
  /\ parsed_config = <<>>
  /\ section = NoSection
  /\ nsec = 0
  /\ targets = <<>>
  /\ cli = NoCli

\* the engine process at position p with no child, no open pipe and nothing
\* written yet
EngineAt(p) ==
  /\ tidx = 0
  /\ target = NoTarget
  /\ pc = p
  /\ exit_status = -1
  /\ batch = "none"
  /\ hooks = <<>>
  /\ num_hooks = 0
  /\ running_children = 0
  /\ status = 0
  /\ i = 0
  /\ hooks_ret = FALSE
  /\ procs = <<>>
  /\ fds = StdFds
  /\ pipefds = [data |-> <<>>, secret |-> <<>>]
  /\ secret_buf = <<>>
  /\ out_stdout = <<>>
  /\ out_stderr = {}
  /\ obs = NewTargetObs

Init ==
  /\ jobs \in JobValues
  /\ ntargets \in 1 .. MaxTargets
  /\ EngineAt("loop")
  /\ StartUpOver
  /\ call = NoCall

(* ------------------------------ processes ------------------------------ *)

\* a child just forked for target t: it holds a copy of the engine's
\* descriptors and of its memory (pfd: the pipe arrays of run_main)
NewProc(kind, t, tab, pfd) ==
  [ kind |-> kind, t |-> t, st |-> "running", wstatus |-> 0, execd |-> FALSE,
    fds |-> tab, pfd |-> pfd, argv |-> <<>> ]

EngineRuns == pc \notin {"done", "exit"}

Range(s) == {s[k] : k \in DOMAIN s}

\* pids the engine still remembers or that are still in the process table
UsedPids == DOMAIN procs \cup {hooks[k].cpid : k \in DOMAIN hooks} \cup Range(target.children)

\* the pid fork() hands out: one that names no process the engine knows of
FreshPid == CHOOSE p \in 1 .. (Cardinality(UsedPids) + 1) : p \notin UsedPids

Spawned(pid, proc) == (pid :> proc) @@ procs
Reaped(pid) == [p \in (DOMAIN procs) \ {pid} |-> procs[p]]
Terminated(pid, ws) ==
  [procs EXCEPT ![pid] = [@ EXCEPT !.st = "zombie", !.wstatus = ws, !.fds = <<>>]]

\* the children a waitpid(pid, ...) can reap now; pid -1 names any child
Reapable(pid) ==
  {q \in DOMAIN procs : procs[q].st = "zombie" /\ (pid = -1 \/ q = pid)}

\* what a waitpid call returns in *status, which the caller set to 0 before:
\* the child's wait status if one was reaped (q), else the 0 left untouched
StatusAfterWaitpid(q) == IF q = NoPid THEN 0 ELSE procs[q].wstatus

(* -------------------------- Target::SystemCommand ---------------------- *)

\* SystemCommand::run in the parent, given fork()'s result
JobAfterRun(h, cpid) ==
  IF cpid = -1 THEN [h EXCEPT !.ran = TRUE, !.failed = TRUE]
  ELSE [h EXCEPT !.ran = TRUE, !.cpid = cpid]

\* SystemCommand::has_exited, given the status its waitpid left
HasExitedResult(st) == WIFEXITED(st) \/ WIFSIGNALED(st)

\* SystemCommand::wait reaches its waitpid call
WaitCallsWaitpid(h) == ~h.exited /\ ~h.failed

\* (a wait that never blocks, as with WNOHANG)
WaitBlocksNever(h) == FALSE

\* ... and that blocking call cannot return yet
WaitBlocks(h) ==
  WaitCallsWaitpid(h) /\ h.cpid \in DOMAIN procs /\ procs[h.cpid].st = "running"

\* the child that call reaps, NoPid when the pid names no child (ECHILD)
WaitReaps(h) ==
  IF WaitCallsWaitpid(h) /\ Reapable(h.cpid) # {} THEN h.cpid ELSE NoPid

\* the Job after SystemCommand::wait, given the wstatus its waitpid left
JobAfterWait(h, ws) ==
  IF h.exited THEN h
  ELSE IF h.failed THEN [h EXCEPT !.exit_code = FailSentinel]
  ELSE IF WIFSIGNALED(ws) THEN [h EXCEPT !.exit_code = WTERMSIG(ws)]
  ELSE IF WIFEXITED(ws) THEN [h EXCEPT !.exit_code = WEXITSTATUS(ws)]
  ELSE [h EXCEPT !.failed = TRUE, !.exit_code = FailSentinel]

\* every path of SystemCommand::wait returns the exit_code it leaves
WaitReturn(h, ws) == JobAfterWait(h, ws).exit_code

\* the Job's process was reaped before: its pid names no child any more
AlreadyReaped(h) == h.ran /\ ~h.failed /\ h.cpid \notin DOMAIN procs

(* ---------------------------- Target::run_hooks ------------------------ *)

HookVector(n) == [k \in 1 .. n |-> NewSystemCommand]

\* run_before_hooks / run_end_hooks: run_hooks takes the vector by value
EnterRunHooks(which, n) ==
  /\ batch' = which
  /\ hooks' = HookVector(n)
  /\ status' = 0
  /\ num_hooks' = n
  /\ running_children' = 0
  /\ i' = 0
  /\ obs' = [NewTargetObs EXCEPT !.given_pass = obs.given_pass]
  /\ out_stdout' = <<>>
  /\ out_stderr' = {}
  /\ secret_buf' = <<>>
  /\ pc' = "rh_loop"
  /\ UNCHANGED << cfgVars, tidx, target, exit_status, hooks_ret, procs, fds, pipefds >>

\* target.run_before_hooks(): run_hooks(this->before_hooks)
RunBeforeHooks ==
  /\ pc = "before_hooks"
  /\ \E n \in 0 .. MaxHooks : EnterRunHooks("before", n)

\* target.run_end_hooks(): run_hooks(this->end_hooks)
RunEndHooks ==
  /\ pc = "end_hooks"
  /\ \E n \in 0 .. MaxHooks : EnterRunHooks("end", n)

\* the spawn test of the scheduler
MaySpawn == running_children < jobs

\* while (num_hooks > 0) ... if (running_children < options.jobs):
\* hooks[--num_hooks].run(); running_children++
RhSpawn ==
  /\ pc = "rh_loop"
  /\ num_hooks > 0
  /\ MaySpawn
  /\ \E forked \in BOOLEAN :
       LET cpid == IF forked THEN FreshPid ELSE -1
       IN /\ hooks' = [hooks EXCEPT ![num_hooks] = JobAfterRun(@, cpid)]
          /\ procs' = IF forked THEN Spawned(cpid, NewProc("hook", tidx, fds, pipefds)) ELSE procs
          /\ out_stderr' = IF forked THEN out_stderr
                           ELSE out_stderr \cup {"fork failed, can't run hook"}
          /\ obs' = IF forked THEN obs ELSE [obs EXCEPT !.b.any_failed = TRUE]
  /\ num_hooks' = num_hooks - 1
  /\ running_children' = running_children + 1
  /\ UNCHANGED << cfgVars, tidx, target, pc, exit_status, batch, status, i, hooks_ret,
                  fds, pipefds, secret_buf, out_stdout >>

\* ... else: for (int i = hooks.size() - 1; ...
RhPollBegin ==
  /\ pc = "rh_loop"
  /\ num_hooks > 0
  /\ ~MaySpawn
  /\ i' = Len(hooks) - 1
  /\ pc' = "rh_poll"
  /\ UNCHANGED << cfgVars, tidx, target, exit_status, batch, hooks, num_hooks,
                  running_children, status, hooks_ret, procs, ioVars, obs >>

\* (a poll pass that visits no hook)
PollVisitsNothing(k) == FALSE

\* (a poll pass that visits every hook of the vector)
PollVisitsAll(k) == k >= 0

\* the hooks a poll pass visits
PollVisits(k) == k >= num_hooks

\* if (hooks[i].has_exited()): waitpid(cpid, &status, WNOHANG)
RhPollHasExited ==
  /\ pc = "rh_poll"
  /\ PollVisits(i)
  /\ LET h == hooks[i + 1]
         z == Reapable(h.cpid)
     IN \E q \in (IF z = {} THEN {NoPid} ELSE z) :
          LET ret == HasExitedResult(StatusAfterWaitpid(q))
          IN /\ procs' = IF q = NoPid THEN procs ELSE Reaped(q)
             /\ pc' = IF ret THEN "rh_poll_wait" ELSE "rh_poll"
             /\ i' = IF ret THEN i ELSE i - 1
             /\ obs' = [obs EXCEPT !.b.rewaited = @ \/ AlreadyReaped(h),
                                   !.b.waited_nopid = @ \/ h.failed]
  /\ UNCHANGED << cfgVars, tidx, target, exit_status, batch, hooks, num_hooks,
                  running_children, status, hooks_ret, ioVars >>

\* status |= hooks[i].wait(); running_children--
RhPollWait ==
  /\ pc = "rh_poll_wait"
  /\ LET h == hooks[i + 1]
         q == WaitReaps(h)
         ws == StatusAfterWaitpid(q)
     IN /\ ~WaitBlocks(h)
        /\ hooks' = [hooks EXCEPT ![i + 1] = JobAfterWait(h, ws)]
        /\ status' = BitOr(status, WaitReturn(h, ws))
        /\ procs' = IF q = NoPid THEN procs ELSE Reaped(q)
        /\ obs' = [obs EXCEPT !.b.rewaited = @ \/ (WaitCallsWaitpid(h) /\ AlreadyReaped(h))]
  /\ running_children' = running_children - 1
  /\ i' = i - 1
  /\ pc' = "rh_poll"
  /\ UNCHANGED << cfgVars, tidx, target, exit_status, batch, num_hooks, hooks_ret, ioVars >>

\* the poll pass is over: std::this_thread::sleep_for(50ms)
RhSleep ==
  /\ pc = "rh_poll"
  /\ ~PollVisits(i)
  /\ pc' = "rh_loop"
  /\ i' = 0
  /\ UNCHANGED << cfgVars, tidx, target, exit_status, batch, hooks, num_hooks,
                  running_children, status, hooks_ret, procs, ioVars, obs >>

\* (the scheduler without its final wait loop)
RhFinalSkipped ==
  /\ pc = "rh_loop"
  /\ num_hooks = 0
  /\ i' = Len(hooks)
  /\ pc' = "rh_final"
  /\ UNCHANGED << cfgVars, tidx, target, exit_status, batch, hooks, num_hooks,
                  running_children, status, hooks_ret, procs, ioVars, obs >>

\* the queue is empty: for (size_t i = 0; ...
RhFinalBegin ==
  /\ pc = "rh_loop"
  /\ num_hooks = 0
  /\ i' = 0
  /\ pc' = "rh_final"
  /\ UNCHANGED << cfgVars, tidx, target, exit_status, batch, hooks, num_hooks,
                  running_children, status, hooks_ret, procs, ioVars, obs >>

\* status |= hooks[i].wait()
RhFinalWait ==
  /\ pc = "rh_final"
  /\ i < Len(hooks)
  /\ LET h == hooks[i + 1]
         q == WaitReaps(h)
         ws == StatusAfterWaitpid(q)
     IN /\ ~WaitBlocks(h)
        /\ hooks' = [hooks EXCEPT ![i + 1] = JobAfterWait(h, ws)]
        /\ status' = BitOr(status, WaitReturn(h, ws))
        /\ procs' = IF q = NoPid THEN procs ELSE Reaped(q)
        /\ obs' = [obs EXCEPT !.b.rewaited = @ \/ (WaitCallsWaitpid(h) /\ AlreadyReaped(h))]
  /\ i' = i + 1
  /\ UNCHANGED << cfgVars, tidx, target, pc, exit_status, batch, num_hooks,
                  running_children, hooks_ret, ioVars >>

\* return status > 0
HooksFailed(s) == s > 0

RhReturn ==
  /\ pc = "rh_final"
  /\ i = Len(hooks)
  /\ hooks_ret' = HooksFailed(status)
  /\ pc' = "rh_done"
  /\ UNCHANGED << cfgVars, tidx, target, exit_status, batch, hookVars, procs, ioVars, obs >>

\* a hook wrapper ends: std::exit(system(command))
HookExits ==
  /\ EngineRuns
  /\ \E pid \in DOMAIN procs :
       /\ procs[pid].kind = "hook"
       /\ procs[pid].st = "running"
       /\ \E o \in HookOutcomes :
            /\ procs' = Terminated(pid, HookWrapperStatus(o))
            /\ obs' = [obs EXCEPT !.b.any_failed = @ \/ OutcomeIsFailure(o)]
  /\ UNCHANGED << cfgVars, tidx, target, pc, exit_status, batch, hookVars, hooks_ret, ioVars >>

(* ----------------------------- Target::run_main ------------------------ *)

\* the engine ends with std::exit(code) after logging msg
ExitWith(code, msg) ==
  /\ pc' = "exit"
  /\ exit_status' = code
  /\ out_stderr' = out_stderr \cup {msg}

\* gpg_command as built (target.cpp 314-327); "0" is the placeholder the
\* child patches, <destfile> stands for this->destfile
GpgCommand ==
  << "gpg", "--batch", "--yes", "--pinentry-mode", "loopback", "--passphrase-fd", "0",
     "--symmetric", "--cipher-algo", "AES256", "-o", "<destfile>" >>

\* gpg_command_pw_fd_index, as a 1-based position
GpgPwFdIndex == 7

\* std::to_string of a descriptor number
FdToString(n) == ToString(n)

\* the part of tar_command every configuration has (target.cpp 282-309);
\* <...> stand for configuration values
TarCommand(encrypt) ==
  << "tar", "-cp", "--xattrs", "--acls", "-I", "<compress_program>", "<path>" >>
    \o (IF encrypt THEN <<>> ELSE << "-f", "<destfile>" >>)

\* if (this->encrypt && this->passphrase == "") ... std::exit(1)
RmNoPassphrase ==
  /\ pc = "run_main"
  /\ target.encrypt /\ target.passphrase = <<>>
  /\ ExitWith(1, "encrypt set to true but no passphrase was provided (bug)")
  /\ UNCHANGED << cfgVars, tidx, target, batch, hookVars, hooks_ret, procs, fds, pipefds,
                  secret_buf, out_stdout, obs >>

\* fs::create_directories(this->destdir) throws
RmMkdirFails ==
  /\ pc = "run_main"
  /\ ~(target.encrypt /\ target.passphrase = <<>>)
  /\ ExitWith(1, "error creating destination directory (no permission?)")
  /\ UNCHANGED << cfgVars, tidx, target, batch, hookVars, hooks_ret, procs, fds, pipefds,
                  secret_buf, out_stdout, obs >>

\* the commands are built and the directory exists: if (this->encrypt)
RmBegin ==
  /\ pc = "run_main"
  /\ ~(target.encrypt /\ target.passphrase = <<>>)
  /\ pc' = IF target.encrypt THEN "rm_fork_tar" ELSE "rm_fork_plain"
  /\ pipefds' = [data |-> <<>>, secret |-> <<>>]
  /\ out_stdout' = <<>>
  /\ out_stderr' = {}
  /\ obs' = [NewTargetObs EXCEPT !.given_pass = obs.given_pass]
  /\ UNCHANGED << cfgVars, tidx, target, exit_status, batch, hookVars, hooks_ret, procs,
                  fds, secret_buf >>

\* pipe(tar_and_gpg_pipefds); pid_t tar_pid = fork(); (parent side)
RmForkTar ==
  /\ pc = "rm_fork_tar"
  /\ LET tab == WithPipe(fds, tidx, "data")
         pfd == [pipefds EXCEPT !.data = PipeFds(fds)]
     IN /\ fds' = tab
        /\ pipefds' = pfd
        /\ \/ /\ procs' = Spawned(FreshPid, NewProc("tar", tidx, tab, pfd))
              /\ target' = [target EXCEPT !.children = Append(@, FreshPid)]
              /\ pc' = "rm_fork_gpg"
              /\ UNCHANGED << exit_status, out_stderr >>
           \/ /\ ExitWith(1, "fork() call failed")
              /\ UNCHANGED << procs, target >>
  /\ UNCHANGED << cfgVars, tidx, batch, hookVars, hooks_ret, secret_buf, out_stdout, obs >>

\* int passphrase_pipefds[2]; pipe(passphrase_pipefds); pid_t gpg_pid = fork();
RmForkGpg ==
  /\ pc = "rm_fork_gpg"
  /\ LET tab == WithPipe(fds, tidx, "secret")
         pfd == [pipefds EXCEPT !.secret = PipeFds(fds)]
     IN /\ fds' = tab
        /\ pipefds' = pfd
        /\ \/ /\ procs' = Spawned(FreshPid, NewProc("gpg", tidx, tab, pfd))
              /\ target' = [target EXCEPT !.children = Append(@, FreshPid)]
              /\ pc' = "rm_write"
              /\ UNCHANGED << exit_status, out_stderr >>
           \/ /\ ExitWith(1, "fork() failed")
              /\ UNCHANGED << procs, target >>
  /\ UNCHANGED << cfgVars, tidx, batch, hookVars, hooks_ret, secret_buf, out_stdout, obs >>

\* (the passphrase sent without its terminator)
WithoutNewline(p) == p

\* this->passphrase += '\n'
WithNewline(p) == Append(p, NL)

\* the descriptors the parent closes once the secret is written
AfterSecretWrite(tab, pfd) == Close(tab, pfd.secret[2])

\* if (gpg_pid > 0): passphrase += '\n'; printf("%s", passphrase);
\* write(passphrase_pipefds[1], passphrase); close(passphrase_pipefds[1])
RmWriteSecret ==
  /\ pc = "rm_write"
  /\ LET line == WithNewline(target.passphrase)
     IN /\ target' = [target EXCEPT !.passphrase = line]
        /\ out_stdout' = out_stdout \o line
        /\ secret_buf' = secret_buf \o line
        /\ obs' = [obs EXCEPT !.secret_written = @ \o line]
  /\ fds' = AfterSecretWrite(fds, pipefds)
  /\ pc' = "rm_close"
  /\ UNCHANGED << cfgVars, tidx, exit_status, batch, hookVars, hooks_ret, procs, pipefds,
                  out_stderr >>

\* (the parent keeping the data pipe's write end)
PipelineSetupKeepsWriteEnd(tab, pfd) == Close(tab, pfd.data[1])

\* the descriptors the parent closes at the end of the encrypting branch
AfterPipelineSetup(tab, pfd) == Close(Close(tab, pfd.data[1]), pfd.data[2])

\* close(tar_and_gpg_pipefds[0]); close(tar_and_gpg_pipefds[1]); return
RmClosePipe ==
  /\ pc = "rm_close"
  /\ fds' = AfterPipelineSetup(fds, pipefds)
  /\ pipefds' = [data |-> <<>>, secret |-> <<>>]
  /\ pc' = "wait_main"
  /\ i' = 0
  /\ UNCHANGED << cfgVars, tidx, target, exit_status, batch, hooks, num_hooks,
                  running_children, status, hooks_ret, procs, secret_buf,
                  out_stdout, out_stderr, obs >>

\* no encryption: pid_t tar_pid = fork(); ... return
RmForkPlain ==
  /\ pc = "rm_fork_plain"
  /\ \/ /\ procs' = Spawned(FreshPid, NewProc("tar", tidx, fds, pipefds))
        /\ target' = [target EXCEPT !.children = Append(@, FreshPid)]
        /\ pc' = "wait_main"
        /\ UNCHANGED << exit_status, out_stderr >>
     \/ /\ ExitWith(1, "fork() call failed")
        /\ UNCHANGED << procs, target >>
  /\ i' = 0
  /\ UNCHANGED << cfgVars, tidx, batch, hooks, num_hooks, running_children, status,
                  hooks_ret, fds, pipefds, secret_buf, out_stdout, obs >>

(* ----------------------------- pipeline children ----------------------- *)

\* the archiver child's descriptors when it calls execvp (target.cpp 343-347)
TarChildFds(tab, pfd) ==
  IF pfd.data = <<>> THEN tab
  ELSE Close(Dup2(Close(tab, pfd.data[1]), pfd.data[2], 1), pfd.data[2])

\* the cipher child's descriptors when it calls execvp (target.cpp 364-373)
GpgChildFds(tab, pfd) ==
  Close(Dup2(Close(Close(tab, pfd.secret[2]), pfd.data[2]), pfd.data[1], 0), pfd.data[1])

\* the cipher child's argument vector: the passphrase-fd value is patched
GpgChildArgv(pfd) == [GpgCommand EXCEPT ![GpgPwFdIndex] = FdToString(pfd.secret[1])]

\* kill(pid, sig) sent to a child of the engine
Killed(ps, pid, sig) ==
  IF pid \in DOMAIN ps /\ ps[pid].st = "running"
  THEN [ps EXCEPT ![pid] = [@ EXCEPT !.st = "zombie", !.wstatus = SignaledStatus(sig),
                                      !.fds = <<>>]]
  ELSE ps

\* the archiver child: redirect stdout, execvp(tar_command)
TarChildExec ==
  /\ EngineRuns
  /\ \E pid \in DOMAIN procs :
       /\ procs[pid].kind = "tar" /\ procs[pid].st = "running" /\ ~procs[pid].execd
       /\ \/ /\ procs' = [procs EXCEPT ![pid] =
                           [@ EXCEPT !.execd = TRUE,
                                     !.fds = TarChildFds(@, procs[pid].pfd),
                                     !.argv = TarCommand(procs[pid].pfd.data # <<>>)]]
             /\ UNCHANGED out_stderr
          \/ /\ procs' = Terminated(pid, ExitedStatus(1))
             /\ out_stderr' = out_stderr \cup {"execvp() failed"}
  /\ UNCHANGED << cfgVars, tidx, target, pc, exit_status, batch, hookVars, hooks_ret, fds,
                  pipefds, secret_buf, out_stdout, obs >>

\* the cipher child: close the secret's write end, patch the argument,
\* redirect stdin, execvp(gpg_command); on failure kill(tar_pid, SIGTERM)
GpgChildExec ==
  /\ EngineRuns
  /\ \E pid \in DOMAIN procs :
       /\ procs[pid].kind = "gpg" /\ procs[pid].st = "running" /\ ~procs[pid].execd
       /\ \/ /\ procs' = [procs EXCEPT ![pid] =
                           [@ EXCEPT !.execd = TRUE,
                                     !.fds = GpgChildFds(@, procs[pid].pfd),
                                     !.argv = GpgChildArgv(procs[pid].pfd)]]
             /\ UNCHANGED out_stderr
          \/ /\ procs' = Killed(Terminated(pid, ExitedStatus(1)), target.children[1], SIGTERM)
             /\ out_stderr' = out_stderr \cup {"execvp() failed"}
  /\ UNCHANGED << cfgVars, tidx, target, pc, exit_status, batch, hookVars, hooks_ret, fds,
                  pipefds, secret_buf, out_stdout, obs >>

\* some process still holds the write end of the current secret pipe
SecretWriteEndHeld ==
  \/ Holds(fds, PipeEnd(tidx, "secret", "w"))
  \/ \E pid \in DOMAIN procs : Holds(procs[pid].fds, PipeEnd(tidx, "secret", "w"))

\* gpg reads its passphrase from the descriptor named by --passphrase-fd:
\* the bytes in the pipe, or end-of-input once no write end is left
CipherReadsSecret ==
  /\ EngineRuns
  /\ ~obs.secret_eof
  /\ \E pid \in DOMAIN procs :
       /\ procs[pid].kind = "gpg" /\ procs[pid].st = "running" /\ procs[pid].execd
       /\ Holds(procs[pid].fds, PipeEnd(tidx, "secret", "r"))
  /\ \/ /\ secret_buf # <<>>
        /\ obs' = [obs EXCEPT !.secret_read = @ \o secret_buf]
        /\ secret_buf' = <<>>
     \/ /\ secret_buf = <<>>
        /\ ~SecretWriteEndHeld
        /\ obs' = [obs EXCEPT !.secret_eof = TRUE]
        /\ UNCHANGED secret_buf
  /\ UNCHANGED << cfgVars, tidx, target, pc, exit_status, batch, hookVars, hooks_ret, procs,
                  fds, pipefds, out_stdout, out_stderr >>

\* exit codes of the archiver and the cipher programs
StageExitCodes == {0, 2}

\* a pipeline stage that was exec'ed ends
StageExits ==
  /\ EngineRuns
  /\ \E pid \in DOMAIN procs :
       /\ procs[pid].kind \in {"tar", "gpg"} /\ procs[pid].st = "running"
       /\ procs[pid].execd
       /\ \E c \in StageExitCodes : procs' = Terminated(pid, ExitedStatus(c))
  /\ UNCHANGED << cfgVars, tidx, target, pc, exit_status, batch, hookVars, hooks_ret,
                  ioVars, obs >>

(* ----------------------------- Target::wait_main ----------------------- *)

\* (wait_main polling instead of blocking)
WaitMainBlocksNever(cpid) == FALSE

\* the blocking waitpid(cpid, &stat, 0) cannot return yet
WaitMainBlocks(cpid) == cpid \in DOMAIN procs /\ procs[cpid].st = "running"

\* for (pid_t cpid : this->children) waitpid(cpid, &stat, 0)
WaitMain ==
  /\ pc = "wait_main"
  /\ i < Len(target.children)
  /\ LET cpid == target.children[i + 1]
     IN /\ ~WaitMainBlocks(cpid)
        /\ procs' = IF Reapable(cpid) # {} THEN Reaped(cpid) ELSE procs
  /\ i' = i + 1
  /\ UNCHANGED << cfgVars, tidx, target, pc, exit_status, batch, hooks, num_hooks,
                  running_children, status, hooks_ret, ioVars, obs >>

WaitMainReturns ==
  /\ pc = "wait_main"
  /\ i = Len(target.children)
  /\ pc' = "end_hooks"
  /\ i' = 0
  /\ UNCHANGED << cfgVars, tidx, target, exit_status, batch, hooks, num_hooks,
                  running_children, status, hooks_ret, procs, ioVars, obs >>

(* --------------------------------- main -------------------------------- *)

\* for (auto target : targets): the loop copies the next resolved target
StartTarget ==
  /\ pc = "loop"
  /\ tidx < ntargets
  /\ \E t \in Targets :
       /\ target' = t
       /\ obs' = [NewTargetObs EXCEPT !.given_pass = t.passphrase]
  /\ tidx' = tidx + 1
  /\ pc' = "before_hooks"
  /\ out_stdout' = <<>>
  /\ out_stderr' = {}
  /\ secret_buf' = <<>>
  /\ UNCHANGED << cfgVars, exit_status, batch, hookVars, hooks_ret, procs, fds, pipefds >>

\* run_hooks returned to main, which drops the result; its locals are gone
LeaveRunHooks(next) ==
  /\ pc = "rh_done"
  /\ pc' = next
  /\ batch' = "none"
  /\ hooks' = <<>>
  /\ num_hooks' = 0
  /\ running_children' = 0
  /\ status' = 0
  /\ i' = 0
  /\ hooks_ret' = FALSE
  /\ UNCHANGED << cfgVars, tidx, target, exit_status, procs, ioVars, obs >>

\* (a run that stops when a before-hook failed)
BeforeHooksFailureEndsRun ==
  /\ batch = "before"
  /\ IF hooks_ret
       THEN /\ pc = "rh_done"
            /\ ExitWith(1, "before hook failed")
            /\ UNCHANGED << cfgVars, tidx, target, batch, hookVars, hooks_ret, procs, fds,
                            pipefds, secret_buf, out_stdout, obs >>
       ELSE LeaveRunHooks("run_main")

\* target.run_before_hooks() returned: main.cpp 251-252
AfterBeforeHooks ==
  /\ batch = "before"
  /\ LeaveRunHooks("run_main")

AfterEndHooks ==
  /\ batch = "end"
  /\ LeaveRunHooks("loop")

\* the loop is over: main returns
MainReturns ==
  /\ pc = "loop"
  /\ tidx = ntargets
  /\ pc' = "done"
  /\ exit_status' = 0
  /\ UNCHANGED << cfgVars, tidx, target, batch, hookVars, hooks_ret, procs, ioVars, obs >>

Next ==
  \/ StartTarget
  \/ RunBeforeHooks
  \/ RhSpawn
  \/ RhPollBegin
  \/ RhPollHasExited
  \/ RhPollWait
  \/ RhSleep
  \/ RhFinalBegin
  \/ RhFinalWait
  \/ RhReturn
  \/ AfterBeforeHooks
  \/ RmNoPassphrase
  \/ RmMkdirFails
  \/ RmBegin
  \/ RmForkTar
  \/ RmForkGpg
  \/ RmWriteSecret
  \/ RmClosePipe
  \/ RmForkPlain
  \/ TarChildExec
  \/ GpgChildExec
  \/ CipherReadsSecret
  \/ StageExits
  \/ WaitMain
  \/ WaitMainReturns
  \/ RunEndHooks
  \/ AfterEndHooks
  \/ HookExits
  \/ MainReturns

Spec == Init /\ [][Next]_vars

(* ------------------------- one batch of hooks -------------------------- *)

\* main is about to call run_before_hooks for its only target
InitHooks ==
  /\ jobs \in JobValues
  /\ ntargets = 1
  /\ EngineAt("before_hooks")
  /\ StartUpOver
  /\ call = NoCall

\* Target::run_hooks (target.cpp 468-495) and the hooks it spawns
NextHooks ==
  \/ RunBeforeHooks
  \/ RhSpawn
  \/ RhPollBegin
  \/ RhPollHasExited
  \/ RhPollWait
  \/ RhSleep
  \/ RhFinalBegin
  \/ RhFinalWait
  \/ RhReturn
  \/ HookExits

\* the scheduling: the engine is never stopped for good, and a hook that was
\* spawned exits
SpecHooks == InitHooks /\ [][NextHooks]_vars /\ WF_vars(NextHooks) /\ WF_vars(HookExits)

(* --------------------- resolve_path_with_environment ------------------- *)

\* longest path string tried
MaxPathLen == 5

\* the characters a path is made of: '$', the braces, two characters that
\* std::isalnum accepts and one it does not
PathChars == {"$", "{", "}", "A", "B", "/"}
NameChars == {"A", "B", "H", "O", "M", "E"}

\* an environment is the set of names that are set; the value of a set name
\* holds a '$' followed by a name, which must not be expanded again
EnvValue(var) == <<"h", "$">> \o var

\* std::getenv(var): the value, or a null pointer
Getenv(env, var) == IF var \in env THEN [null |-> FALSE, val |-> EnvValue(var)]
                    ELSE [null |-> TRUE, val |-> <<>>]

\* path.find(c, from) with 1-based positions; 0 stands for npos
Find(path, c, from) ==
  LET hits == {k \in from .. Len(path) : path[k] = c}
  IN IF hits = {} THEN 0 ELSE CHOOSE k \in hits : \A h \in hits : k <= h

\* the while loop of lines 67-70: the first position from start on that holds
\* no name character, Len(path) + 1 if there is none
NameEnd(path, start) ==
  LET stops == {k \in start .. Len(path) : path[k] \notin NameChars}
  IN IF stops = {} THEN Len(path) + 1 ELSE CHOOSE k \in stops : \A h \in stops : k <= h

UnsetBracedDropped(var) == var
\* what an unset ${VAR} leaves in the result
UnsetBraced(var) == <<"$", "{">> \o var \o <<"}">>

\* the for loop of lines 37-86, entered with the 1-based position k and the
\* result built so far
RECURSIVE ResolveFrom(_, _, _, _)
ResolveFrom(path, env, k, result) ==
  IF k > Len(path) THEN result
  ELSE IF path[k] # "$" THEN ResolveFrom(path, env, k + 1, Append(result, path[k]))
  ELSE IF k + 1 <= Len(path) /\ path[k + 1] = "{" THEN
    LET end == Find(path, "}", k + 2)
        var == SubSeq(path, k + 2, end - 1)
        val == Getenv(env, var)
    IN IF end = 0 THEN ResolveFrom(path, env, k + 1, Append(result, "$"))
       ELSE ResolveFrom(path, env, end + 1,
                        result \o (IF ~val.null THEN val.val ELSE UnsetBraced(var)))
  ELSE
    LET start == k + 1
        j == NameEnd(path, start)
        var == SubSeq(path, start, j - 1)
        val == Getenv(env, var)
    IN IF j = start THEN ResolveFrom(path, env, k + 1, Append(result, "$"))
       ELSE ResolveFrom(path, env, j,
                        result \o (IF ~val.null THEN val.val ELSE <<"$">> \o var))

resolve_path_with_environment(path, env) == ResolveFrom(path, env, 1, <<>>)

\* a caller hands a path to the function in some environment
InitPath ==
  /\ call \in [fn : {"resolve_path_with_environment"},
               path : SeqsUpTo(PathChars, MaxPathLen), env : {{}, {<<"A">>}},
               done : {FALSE}, ret : {<<>>}]
  /\ jobs = 1
  /\ ntargets = 0
  /\ EngineAt("call")
  /\ StartUpOver

ResolvePath ==
  /\ call.fn = "resolve_path_with_environment"
  /\ ~call.done
  /\ call' = [call EXCEPT !.done = TRUE,
                          !.ret = resolve_path_with_environment(call.path, call.env)]
  /\ UNCHANGED << jobs, ntargets, argc, options, parsed_config, section, nsec, targets,
                  cli, tidx, target, pc, exit_status, batch, hookVars, hooks_ret, procs,
                  ioVars, obs >>

SpecPath == InitPath /\ [][ResolvePath]_vars

(* ----------------------------- Target::Target --------------------------- *)

\* most values one key has in a section
MaxValues == 2

\* target_config[key]: every value the section holds for the key, in order
Lookups(values) == SeqsUpTo(values, MaxValues)

\* the values tried for the keys; strings are sequences of pieces
BoolWords == {<<"t", "r", "u", "e">>, <<"T", "r", "u", "e">>, <<"F", "A", "L", "S", "E">>,
              <<"1">>}
HomeBackups == <<"$", "H", "O", "M", "E", "/", "Backups">>

\* std::tolower on every character, for the letters that occur
toLower(str) ==
  LET lower(c) == CASE c = "T" -> "t" [] c = "F" -> "f" [] c = "A" -> "a" [] c = "L" -> "l"
                    [] c = "S" -> "s" [] c = "E" -> "e" [] OTHER -> c
  IN [k \in DOMAIN str |-> lower(str[k])]

\* the Target before the constructor has set anything
NewTarget ==
  [ path |-> <<>>, elavated |-> FALSE, name |-> <<>>, destdir |-> <<>>,
    compress_program |-> <<>>, encrypt |-> FALSE, one_file_system |-> FALSE,
    elavate_program |-> <<>>, destfile |-> <<>>, before_hooks |-> <<>>,
    end_hooks |-> <<>> ]

\* main hands a target section to the constructor.  What the section holds
\* for a key is drawn where the constructor reads it; the values of
\* compress_level, which it never reads, and of the global default_dest are
\* drawn here.
InitTarget ==
  /\ call \in [ fn : {"Target::Target"},
                 env : {{}, {<<"A">>, <<"H", "O", "M", "E">>}},
                 default_dest : Lookups({<<"$", "{", "A", "}", "/", "B", "B">>}),
                 compress_level : Lookups({<<"9">>}),
                 day : { [year |-> 2026, mon |-> 3, mday |-> 1],
                         [year |-> 2026, mon |-> 12, mday |-> 31] },
                 lookup : {[key |-> "", vals |-> <<>>]}, this : {NewTarget} ]
  /\ options \in [targets : {<<>>}, all_targets : {FALSE}, destdir : {<<>>, <<"/", "A">>, <<"$", "A">>}]
  /\ parsed_config = <<>>
  /\ section = NoSection
  /\ argc = 0
  /\ nsec = 0
  /\ targets = <<>>
  /\ cli = NoCli
  /\ jobs = 1
  /\ ntargets = 0
  /\ EngineAt("ctor_path")

\* the constructor read target_config[key]
Looked(key, vals) == [call EXCEPT !.lookup = [key |-> key, vals |-> vals]]

CtorContinue(next, c) ==
  /\ pc' = next
  /\ call' = c
  /\ UNCHANGED << exit_status, out_stderr, out_stdout, jobs, ntargets, argc, options,
                  parsed_config, section, nsec, targets, cli, tidx, target, batch,
                  hookVars, hooks_ret, procs, fds, pipefds, secret_buf, obs >>

CtorExit(c, msg) ==
  /\ ExitWith(1, msg)
  /\ call' = c
  /\ UNCHANGED << out_stdout, jobs, ntargets, argc, options, parsed_config, section, nsec,
                  targets, cli, tidx, target, batch, hookVars, hooks_ret, procs, fds,
                  pipefds, secret_buf, obs >>

\* lines 65-70
CtorPath ==
  /\ pc = "ctor_path"
  /\ \E vals \in Lookups({<<"/", "A">>}) :
       LET c == Looked("path", vals)
       IN IF Len(vals) # 1 THEN CtorExit(c, "path may only be defined once")
          ELSE CtorContinue("ctor_elavated",
                 [c EXCEPT !.this.path = resolve_path_with_environment(vals[1], call.env)])

\* how the three bool keys are read (lines 72-84, 122-134, 136-149): at most
\* one value, "true" or "false" in any case, else the default
BoolKey(vals, dflt) ==
  IF Len(vals) > 1 THEN [err |-> "many", val |-> dflt]
  ELSE IF Len(vals) = 1 THEN
    IF toLower(vals[1]) = <<"t", "r", "u", "e">> THEN [err |-> "", val |-> TRUE]
    ELSE IF toLower(vals[1]) = <<"f", "a", "l", "s", "e">> THEN [err |-> "", val |-> FALSE]
    ELSE [err |-> "invalid", val |-> dflt]
  ELSE [err |-> "", val |-> dflt]

\* lines 72-84
CtorElavated ==
  /\ pc = "ctor_elavated"
  /\ \E vals \in Lookups(BoolWords) :
       LET c == Looked("elavated", vals)
           r == BoolKey(vals, FALSE)
       IN IF r.err = "many" THEN CtorExit(c, "elavated may only be defined once")
          ELSE IF r.err = "invalid" THEN CtorExit(c, "invalid value for elavated, must be bool")
          ELSE CtorContinue("ctor_name", [c EXCEPT !.this.elavated = r.val])

\* lines 86-91
CtorName ==
  /\ pc = "ctor_name"
  /\ \E vals \in Lookups({<<"db">>}) :
       LET c == Looked("name", vals)
       IN IF Len(vals) # 1 THEN CtorExit(c, "name may only be defined once")
          ELSE CtorContinue("ctor_dest", [c EXCEPT !.this.name = vals[1]])

DestPreferred(cmdline, dests) == IF dests # <<>> THEN dests[1] ELSE cmdline
\* lines 93-94: a --destdir value is taken as it is
DestFromOptions(cmdline, dests) == cmdline

\* lines 93-111
CtorDest ==
  /\ pc = "ctor_dest"
  /\ \E vals \in Lookups({<<"/", "B">>, <<"$", "A">>}) :
       LET c == Looked("dest", vals)
           resolved(str) == resolve_path_with_environment(str, call.env)
       IN IF options.destdir # <<>>
            THEN CtorContinue("ctor_compress",
                   [c EXCEPT !.this.destdir = DestFromOptions(options.destdir, vals)])
          ELSE IF Len(vals) > 1 THEN CtorExit(c, "dest may only be defined once")
          ELSE IF Len(vals) = 1
            THEN CtorContinue("ctor_compress", [c EXCEPT !.this.destdir = resolved(vals[1])])
          ELSE IF Len(call.default_dest) = 1
            THEN CtorContinue("ctor_compress",
                   [c EXCEPT !.this.destdir = resolved(call.default_dest[1])])
          ELSE IF Len(call.default_dest) > 1
            THEN CtorExit(c, "default_dest may only be defined once")
          ELSE CtorContinue("ctor_compress", [c EXCEPT !.this.destdir = resolved(HomeBackups)])

\* line 119
DefaultCompressProgram == <<"xz", " ", "-9e", " ", "--threads=0">>

\* lines 113-120
CtorCompressProgram ==
  /\ pc = "ctor_compress"
  /\ \E vals \in Lookups({<<"xz">>, <<"gzip">>}) :
       LET c == Looked("compress_program", vals)
       IN IF Len(vals) > 1 THEN CtorExit(c, "compress_program may only be defined once")
          ELSE IF Len(vals) = 1
            THEN CtorContinue("ctor_encrypt", [c EXCEPT !.this.compress_program = vals[1]])
          ELSE CtorContinue("ctor_encrypt",
                 [c EXCEPT !.this.compress_program = DefaultCompressProgram])

\* lines 122-134: without a value, encrypt follows elavated
CtorEncrypt ==
  /\ pc = "ctor_encrypt"
  /\ \E vals \in Lookups(BoolWords) :
       LET c == Looked("encrypt", vals)
           r == BoolKey(vals, call.this.elavated)
       IN IF r.err = "many" THEN CtorExit(c, "encrypt may only be defined once")
          ELSE IF r.err = "invalid" THEN CtorExit(c, "invalid value for encrypt, must be bool")
          ELSE CtorContinue("ctor_one_file_system", [c EXCEPT !.this.encrypt = r.val])

\* lines 136-149
CtorOneFileSystem ==
  /\ pc = "ctor_one_file_system"
  /\ \E vals \in Lookups(BoolWords) :
       LET c == Looked("one_file_system", vals)
           r == BoolKey(vals, TRUE)
       IN IF r.err = "many" THEN CtorExit(c, "one_file_system may only be defined once")
          ELSE IF r.err = "invalid"
            THEN CtorExit(c, "invalid value for one_file_system, must be bool")
          ELSE CtorContinue("ctor_elavate_program", [c EXCEPT !.this.one_file_system = r.val])

\* lines 151-158
CtorElavateProgram ==
  /\ pc = "ctor_elavate_program"
  /\ \E vals \in Lookups({<<"sudo">>}) :
       LET c == Looked("elavate_program", vals)
       IN IF Len(vals) > 1 THEN CtorExit(c, "elavate_program may only be defined once")
          ELSE IF Len(vals) = 1
            THEN CtorContinue("ctor_destfile", [c EXCEPT !.this.elavate_program = vals[1]])
          ELSE CtorContinue("ctor_destfile", [c EXCEPT !.this.elavate_program = <<"su">>])

DigitChars == <<"0", "1", "2", "3", "4", "5", "6", "7", "8", "9">>

\* a number in decimal, zero-padded to at least width digits
RECURSIVE Decimal(_, _)
Decimal(n, width) ==
  IF n < 10 /\ width <= 1 THEN <<DigitChars[n + 1]>>
  ELSE Append(Decimal(n \div 10, width - 1), DigitChars[(n % 10) + 1])

\* strftime(buff, sizeof(buff), "%Y-%m-%d", &tm): %Y is the year in decimal,
\* %m and %d have two digits
Strftime(day) ==
  Decimal(day.year, 1) \o <<"-">> \o Decimal(day.mon, 2) \o <<"-">> \o Decimal(day.mday, 2)

\* Target::get_file_name
get_file_name(this, day) ==
  LET ext == <<".tar.">> \o this.compress_program
               \o (IF this.encrypt THEN <<".gpg">> ELSE <<>>)
  IN this.name \o <<"_">> \o Strftime(day) \o ext

\* std::filesystem::path operator/ with a relative right-hand side
PathJoin(dir, name) ==
  IF dir = <<>> \/ dir[Len(dir)] = "/" THEN dir \o name ELSE dir \o <<"/">> \o name

\* line 169 (the loops before it copy excludes and tar_flags, which no check
\* reads back)
CtorDestfile ==
  /\ pc = "ctor_destfile"
  /\ CtorContinue("ctor_hooks",
       [call EXCEPT !.this.destfile =
          PathJoin(call.this.destdir, get_file_name(call.this, call.day))])

\* lines 173-197: every before_hook and end_hook value becomes a
\* SystemCommand whose command is the three assignments followed by the value;
\* a value starts with a blank only if it was quoted in the file.  The
\* constructor returns.
CtorHooks ==
  /\ pc = "ctor_hooks"
  /\ \E before_hooks_arr \in Lookups({<<"sync">>, <<" ", "sync">>}),
        end_hooks_arr \in Lookups({<<"true">>}) :
       LET this == call.this
           env == <<"BACKMAN_TARGET_DESTFILE=\"">> \o this.destfile
                    \o <<"\" BACKMAN_TARGET_NAME=\"">> \o this.name
                    \o <<"\" BACKMAN_TARGET_DESTDIR=\"">> \o this.destdir
                    \o <<"\"">>
       IN CtorContinue("constructed",
            [Looked("end_hook", end_hooks_arr) EXCEPT
               !.this.before_hooks =
                  [k \in DOMAIN before_hooks_arr |-> env \o before_hooks_arr[k]],
               !.this.end_hooks = [k \in DOMAIN end_hooks_arr |-> env \o end_hooks_arr[k]]])

NextTarget ==
  \/ CtorPath
  \/ CtorElavated
  \/ CtorName
  \/ CtorDest
  \/ CtorCompressProgram
  \/ CtorEncrypt
  \/ CtorOneFileSystem
  \/ CtorElavateProgram
  \/ CtorDestfile
  \/ CtorHooks

SpecTarget == InitTarget /\ [][NextTarget]_vars

(* ------------------------- main: before the run loop -------------------- *)

\* most words on the command line after the program's name
MaxArgs == 3

\* the pseudo-target, the names asked for and the names configured
All == <<"all">>
TargetNames == {<<"db">>, <<"web">>}

\* the configurations tried: none (an empty file), or the global section and
\* then target sections and sections of another name
ParsedConfigs ==
  {<<>>} \cup
  { <<NoSection>> \o rest :
      rest \in SeqsUpTo({[name |-> "misc", target_name |-> <<>>]}
                          \cup {[name |-> "target", target_name |-> n] : n \in TargetNames},
                        MaxTargets) }

\* the words tried as the argument of -j / --jobs: every number as it is
\* typed, a word without a digit and a number with a letter after it
JobsWords ==
  {IF n < 0 THEN <<"-">> \o Decimal(0 - n, 1) ELSE Decimal(n, 1) : n \in JobValues}
    \cup {<<"x">>, <<"1", "x">>}

RECURSIVE DecimalValue(_)
DecimalValue(digits) ==
  IF digits = <<>> THEN 0
  ELSE 10 * DecimalValue(SubSeq(digits, 1, Len(digits) - 1))
         + (CHOOSE d \in DOMAIN DigitChars : DigitChars[d] = digits[Len(digits)]) - 1

\* std::stoi: an optional sign and the longest run of digits; it throws when
\* there is no digit
Stoi(word) ==
  LET neg == word # <<>> /\ word[1] = "-"
      body == IF neg THEN Tail(word) ELSE word
      stops == {k \in DOMAIN body : \A d \in DOMAIN DigitChars : DigitChars[d] # body[k]}
      n == IF stops = {} THEN Len(body)
           ELSE (CHOOSE k \in stops : \A h \in stops : k <= h) - 1
      val == DecimalValue(SubSeq(body, 1, n))
  IN [throws |-> n = 0, val |-> IF neg THEN 0 - val ELSE val]

\* what the command line asks for, for the properties: "all" together with
\* another name, a name twice, a name no target section has
Asked(ts, config) ==
  [cli EXCEPT
     !.all_with_other = \E p, q \in DOMAIN ts : ts[p] = All /\ ts[q] # All,
     !.duplicate = \E p, q \in DOMAIN ts : p # q /\ ts[p] = ts[q],
     !.unresolved =
       \E p \in DOMAIN ts :
         /\ ts[p] # All
         /\ \A k \in DOMAIN config :
              ~(config[k].name = "target" /\ config[k].target_name = ts[p])]

\* main is entered: int jobs = 1, no target yet, some configuration on disk
InitMain ==
  /\ argc \in 1 .. MaxArgs + 1
  /\ parsed_config \in ParsedConfigs
  /\ options = NoOptions
  /\ section = NoSection
  /\ nsec = 0
  /\ targets = <<>>
  /\ cli = NoCli
  /\ call = NoCall
  /\ jobs = 1
  /\ ntargets = 0
  /\ EngineAt("main")

\* what main leaves alone before the run loop
mainFrame == << tidx, target, batch, hooks, num_hooks, running_children, status, hooks_ret,
                procs, fds, pipefds, secret_buf, obs, call, parsed_config >>

\* main.cpp 168-172
CallParseArgs ==
  /\ pc = "main"
  /\ pc' = "parse_args"
  /\ i' = 1
  /\ UNCHANGED << mainFrame, exit_status, out_stdout, out_stderr, jobs, ntargets, argc,
                  options, section, nsec, targets, cli >>

\* parse_args is at argv[i]
AtWord == pc = "parse_args" /\ i < argc

\* the error is logged and std::exit(1) called
MainExit(msg) ==
  /\ ExitWith(1, msg)
  /\ UNCHANGED << mainFrame, i, out_stdout, jobs, ntargets, argc, options, section, nsec,
                  targets, cli >>

\* --help, --version, -h
PaHelp ==
  /\ AtWord
  /\ pc' = "exit"
  /\ exit_status' = 0
  /\ out_stdout' = Append(out_stdout, "help_format")
  /\ cli' = [cli EXCEPT !.help = TRUE]
  /\ UNCHANGED << mainFrame, i, out_stderr, jobs, ntargets, argc, options, section, nsec,
                  targets >>

\* --verbose, -v, --keep-going: they set what nothing reads
PaFlag ==
  /\ AtWord
  /\ i' = i + 1
  /\ UNCHANGED << mainFrame, pc, exit_status, out_stdout, out_stderr, jobs, ntargets, argc,
                  options, section, nsec, targets, cli >>

\* --config: lines 70-75; without an argument the error is logged and the
\* loop goes on
PaConfig ==
  /\ AtWord
  /\ i' = i + 2
  /\ out_stderr' = IF i + 1 < argc THEN out_stderr
                   ELSE out_stderr \cup {"option --config requires argument"}
  /\ UNCHANGED << mainFrame, pc, exit_status, out_stdout, jobs, ntargets, argc, options,
                  section, nsec, targets, cli >>

\* -c: lines 138-147
PaShortConfig ==
  /\ AtWord
  /\ IF i + 1 < argc
       THEN /\ i' = i + 2
            /\ UNCHANGED << mainFrame, pc, exit_status, out_stdout, out_stderr, jobs, ntargets,
                            argc, options, section, nsec, targets, cli >>
       ELSE MainExit("option -c requires argument")

\* --jobs and -j: lines 79-90 and 120-134
PaJobs ==
  /\ AtWord
  /\ IF i + 1 < argc
       THEN \E word \in JobsWords :
              IF Stoi(word).throws THEN MainExit("invalid argument to --jobs")
              ELSE /\ jobs' = Stoi(word).val
                   /\ i' = i + 2
                   /\ UNCHANGED << mainFrame, pc, exit_status, out_stdout, out_stderr,
                                   ntargets, argc, options, section, nsec, targets, cli >>
       ELSE MainExit("option --jobs requires argument")

\* --destdir: lines 91-97
PaDestdir ==
  /\ AtWord
  /\ IF i + 1 < argc
       THEN /\ options' = [options EXCEPT !.destdir = <<"/", "A">>]
            /\ i' = i + 2
            /\ UNCHANGED << mainFrame, pc, exit_status, out_stdout, out_stderr, jobs, ntargets,
                            argc, section, nsec, targets, cli >>
       ELSE MainExit("option --destdir requires argument")

\* any other word that starts with '-'
PaUnknown ==
  /\ AtWord
  /\ MainExit("unknown option")

\* a word that is no option: lines 156-161
PaTarget ==
  /\ AtWord
  /\ \E word \in {All} \cup TargetNames :
       /\ options' = [options EXCEPT !.targets = Append(@, word),
                                     !.all_targets = @ \/ word = All]
       /\ cli' = Asked(Append(options.targets, word), parsed_config)
  /\ i' = i + 1
  /\ UNCHANGED << mainFrame, pc, exit_status, out_stdout, out_stderr, jobs, ntargets, argc,
                  section, nsec, targets >>

PaReturn ==
  /\ pc = "parse_args"
  /\ i >= argc
  /\ pc' = "config"
  /\ i' = 0
  /\ UNCHANGED << mainFrame, exit_status, out_stdout, out_stderr, jobs, ntargets, argc,
                  options, section, nsec, targets, cli >>

\* lines 191-196: the file is there and ini_parse returns, or it is not
LoadConfig ==
  /\ pc = "config"
  /\ \/ /\ pc' = "sections"
        /\ UNCHANGED << mainFrame, i, exit_status, out_stdout, out_stderr, jobs, ntargets,
                        argc, options, section, nsec, targets, cli >>
     \/ MainExit("config file does not exist")

\* line 199: the loop copies the next section
SectionTake ==
  /\ pc = "sections"
  /\ nsec < Len(parsed_config)
  /\ section' = parsed_config[nsec + 1]
  /\ nsec' = nsec + 1
  /\ pc' = "section"
  /\ UNCHANGED << mainFrame, i, exit_status, out_stdout, out_stderr, jobs, ntargets, argc,
                  options, targets, cli >>

\* lines 200-201
SectionGlobal ==
  /\ pc = "section"
  /\ section.name = ""
  /\ pc' = "sections"
  /\ UNCHANGED << mainFrame, i, exit_status, out_stdout, out_stderr, jobs, ntargets, argc,
                  options, section, nsec, targets, cli >>

\* lines 202-203: Target::Target ends the run, or a Target is appended; what
\* the section holds besides its name is drawn here
SectionTarget ==
  /\ pc = "section"
  /\ section.name = "target"
  /\ \/ MainExit("invalid target section")
     \/ /\ \E e \in BOOLEAN :
             targets' = Append(targets, [name |-> section.target_name, encrypt |-> e,
                                         prompted |-> FALSE])
        /\ pc' = "sections"
        /\ UNCHANGED << mainFrame, i, exit_status, out_stdout, out_stderr, jobs, ntargets,
                        argc, options, section, nsec, cli >>

TargetsDropped(ts) == <<>>
\* lines 204-208 leave the vector as it is
TargetsAfterInvalidSection(ts) == ts

\* lines 204-208: a warning, a prompt, and std::cin.get() returns
SectionInvalid ==
  /\ pc = "section"
  /\ section.name \notin {"", "target"}
  /\ out_stderr' = out_stderr \cup {"Invalid section, ignoring"}
  /\ out_stdout' = Append(out_stdout, "Press enter to continue or ^C to stop: ")
  /\ targets' = TargetsAfterInvalidSection(targets)
  /\ pc' = "sections"
  /\ UNCHANGED << mainFrame, i, exit_status, jobs, ntargets, argc, options, section, nsec,
                  cli >>

SectionsEnd ==
  /\ pc = "sections"
  /\ nsec = Len(parsed_config)
  /\ pc' = "check_all"
  /\ section' = NoSection
  /\ UNCHANGED << mainFrame, i, exit_status, out_stdout, out_stderr, jobs, ntargets, argc,
                  options, nsec, targets, cli >>

MainGoesOn(next) ==
  /\ pc' = next
  /\ UNCHANGED << mainFrame, i, exit_status, out_stdout, out_stderr, jobs, ntargets, argc,
                  options, section, nsec, targets, cli >>

AllNeverRejected(opts) == FALSE
\* line 211
AllCalledWithOthers(opts) == opts.all_targets /\ Len(opts.targets) > 1

\* lines 211-214
CheckAll ==
  /\ pc = "check_all"
  /\ IF AllCalledWithOthers(options)
       THEN MainExit("target all called simultaneously to other targets")
       ELSE MainGoesOn("check_twice")

TwiceNeverRejected(opts) == FALSE
\* lines 216-218
RequestedTwice(opts) ==
  \E p, q \in DOMAIN opts.targets : p < q /\ opts.targets[p] = opts.targets[q]

\* lines 216-223
CheckTwice ==
  /\ pc = "check_twice"
  /\ IF RequestedTwice(options)
       THEN MainExit("target requested multiple times")
       ELSE MainGoesOn("resolve")

\* (an erasure after which the loop skips the element that moved up)
ErasureSkipsNext(k) == k + 1

\* line 233 and the loop's i++: targets.erase(targets.begin() + i--) leaves
\* the index on the element that moved up
IndexAfterErase(k) == k

\* lines 225-234, one round: the target is asked for and set_passphrase
\* prompts for an encrypted one, or it is erased
ResolveStep ==
  /\ pc = "resolve"
  /\ i < Len(targets)
  /\ IF \E j \in DOMAIN options.targets :
          options.all_targets \/ targets[i + 1].name = options.targets[j]
       THEN /\ i' = i + 1
            /\ IF targets[i + 1].encrypt
                 THEN /\ targets' = [targets EXCEPT ![i + 1].prompted = TRUE]
                      /\ out_stdout' =
                           out_stdout \o <<"Passphrase for target \"">>
                             \o targets[i + 1].name
                             \o <<"\": ", "Confirm passphrase for target \"">>
                             \o targets[i + 1].name \o <<"\": ">>
                 ELSE UNCHANGED << targets, out_stdout >>
       ELSE /\ targets' = SubSeq(targets, 1, i) \o SubSeq(targets, i + 2, Len(targets))
            /\ i' = IndexAfterErase(i)
            /\ UNCHANGED out_stdout
  /\ UNCHANGED << mainFrame, pc, exit_status, out_stderr, jobs, ntargets, argc, options,
                  section, nsec, cli >>

ResolveEnd ==
  /\ pc = "resolve"
  /\ i >= Len(targets)
  /\ pc' = "check_found"
  /\ i' = 0
  /\ UNCHANGED << mainFrame, exit_status, out_stdout, out_stderr, jobs, ntargets, argc,
                  options, section, nsec, targets, cli >>

NotFoundNeverRejected(opts, ts) == FALSE
\* lines 236-242
RequestNotFound(opts, ts) ==
  /\ ~opts.all_targets
  /\ \E j \in DOMAIN opts.targets : \A k \in DOMAIN ts : ts[k].name # opts.targets[j]

\* lines 236-250: a requested name is missing, or the run loop is entered.
\* The loop reads the vector through its copy of the current Target only
\* (StartTarget); of main's start-up the model keeps the vector's size.
CheckFound ==
  /\ pc = "check_found"
  /\ IF RequestNotFound(options, targets)
       THEN MainExit("target not found")
       ELSE /\ pc' = "loop"
            /\ ntargets' = Len(targets)
            /\ argc' = 0
            /\ options' = NoOptions
            /\ nsec' = 0
            /\ targets' = <<>>
            /\ parsed_config' = <<>>
            /\ UNCHANGED << tidx, target, batch, hooks, num_hooks, running_children, status,
                            hooks_ret, procs, fds, pipefds, secret_buf, obs, call, i,
                            exit_status, out_stdout, out_stderr, jobs, section, cli >>

NextMain ==
  \/ CallParseArgs
  \/ PaHelp
  \/ PaFlag
  \/ PaConfig
  \/ PaShortConfig
  \/ PaJobs
  \/ PaDestdir
  \/ PaUnknown
  \/ PaTarget
  \/ PaReturn
  \/ LoadConfig
  \/ SectionTake
  \/ SectionGlobal
  \/ SectionTarget
  \/ SectionInvalid
  \/ SectionsEnd
  \/ CheckAll
  \/ CheckTwice
  \/ ResolveStep
  \/ ResolveEnd
  \/ CheckFound
  \/ Next

SpecMain == InitMain /\ [][NextMain]_vars

(* ------------------------------ properties ----------------------------- *)

HookProcs == {p \in DOMAIN procs : procs[p].kind = "hook"}
StageProcs == {p \in DOMAIN procs : procs[p].kind \in {"tar", "gpg"}}

\* the engine is past run_main's return for the current target
AfterRunMain == pc \in {"wait_main", "end_hooks"} \/ batch = "end"

IsPrefix(s, t) == Len(s) <= Len(t) /\ SubSeq(t, 1, Len(s)) = s

\* the pipe descriptors a table holds
PipeEntries(tab) == {<<n, tab[n]>> : n \in {m \in DOMAIN tab : tab[m].p # "tty"}}

\* C1: with a job limit of at least 1, never more hooks started and not yet
\* reaped than the job limit.
C1_HooksWithinJobLimit == jobs >= 1 => Cardinality(HookProcs) <= jobs

\* C2: run_hooks returns true exactly when some hook of the batch exited
\* nonzero, was killed by a signal or could not be spawned.
C2_ReturnsTrueIffAHookFailed == pc = "rh_done" => (hooks_ret <=> obs.b.any_failed)

C4_SecretOnlyOnSecretPipe ==
  /\ \A k \in DOMAIN out_stdout : out_stdout[k] \notin PassBytes
  /\ out_stderr \cap PassBytes = {}
  /\ \A p \in DOMAIN procs : \A k \in DOMAIN procs[p].argv : procs[p].argv[k] \notin PassBytes

\* C5: once a Job's process was reaped, no waitpid is issued for it again.
C5_NoWaitpidAfterReap == ~obs.b.rewaited

\* C6: a Job whose fork failed keeps the never-assigned pid and the failed
\* mark, and no waitpid is issued for it.
C6_NoWaitpidForFailedSpawn ==
  /\ \A k \in DOMAIN hooks : hooks[k].failed => hooks[k].cpid = NoPid
  /\ ~obs.b.waited_nopid

\* C7: hook processes and pipeline processes never exist together (the
\* before-hooks are reaped before the archiver is spawned, the end-hooks
\* start after the pipeline was reaped), and a pipeline process is waited on
\* only when every stage was spawned.
C7_PhasesOrdered ==
  /\ ~(HookProcs # {} /\ StageProcs # {})
  /\ (pc = "wait_main" \/ \E k \in DOMAIN target.children : target.children[k] \notin DOMAIN procs)
       => Len(target.children) = (IF target.encrypt THEN 2 ELSE 1)

C7_Witness == batch = "end" /\ HookProcs # {} /\ target.encrypt /\ Len(target.children) = 2

\* C8: the run loop takes the targets one by one in vector order, moves on
\* only when no child is left, and every child belongs to the current target.
C8_TargetsSequential ==
  [][ /\ tidx' = tidx \/ (tidx' = tidx + 1 /\ procs = <<>>)
      /\ \A p \in DOMAIN procs' : procs'[p].t = tidx' ]_vars

C8_Witness == tidx = 2 /\ HookProcs # {} /\ batch = "before"

\* C9: when run_hooks returns, every hook was started and no hook process is
\* left running or unreaped.
C9_ReturnsWithNothingOutstanding ==
  pc = "rh_done" =>
    /\ \A k \in DOMAIN hooks : hooks[k].ran
    /\ HookProcs = {}

C9_Witness == pc = "rh_done" /\ Len(hooks) >= 3 /\ jobs = 2 /\ obs.b.any_failed

\* C10: after run_main the parent holds no pipe descriptor, the archiver of an
\* encrypted target only the data pipe's write end as stdout, the cipher only
\* the data pipe's read end as stdin and the secret pipe's read end, and no
\* hook inherits a pipe descriptor.
C10_UnusedPipeEndsClosed ==
  /\ (AfterRunMain \/ pc \in {"loop", "before_hooks"} \/ batch = "before")
       => PipeEntries(fds) = {}
  /\ \A p \in DOMAIN procs :
       /\ (procs[p].kind = "tar" /\ procs[p].execd /\ procs[p].st = "running") =>
            PipeEntries(procs[p].fds) \subseteq {<<1, PipeEnd(tidx, "data", "w")>>}
       /\ (procs[p].kind = "gpg" /\ procs[p].execd /\ procs[p].st = "running") =>
            PipeEntries(procs[p].fds) =
              { <<0, PipeEnd(tidx, "data", "r")>>,
                <<procs[p].pfd.secret[1], PipeEnd(tidx, "secret", "r")>> }
       /\ (procs[p].kind = "hook" /\ procs[p].st = "running") =>
            PipeEntries(procs[p].fds) = {}

(* ---- properties of resolve_path_with_environment ---- *)

\* the reference that starts at position k of the path, if one does:
\* ${...} up to the first closing brace, or $ and the longest run of name
\* characters after it
BracedRefAt(path, k) ==
  /\ k + 1 <= Len(path)
  /\ path[k] = "$"
  /\ path[k + 1] = "{"
  /\ \E e \in k + 2 .. Len(path) : path[e] = "}"

PlainRefAt(path, k) ==
  /\ k + 1 <= Len(path)
  /\ path[k] = "$"
  /\ path[k + 1] \in NameChars

RefText(path, k) ==
  IF BracedRefAt(path, k)
    THEN SubSeq(path, k, CHOOSE e \in k + 2 .. Len(path) :
                           path[e] = "}" /\ \A f \in k + 2 .. e - 1 : path[f] # "}")
    ELSE SubSeq(path, k, CHOOSE e \in k + 1 .. Len(path) :
                           /\ \A f \in k + 1 .. e : path[f] \in NameChars
                           /\ (e = Len(path) \/ path[e + 1] \notin NameChars))

RefVar(path, k) ==
  LET text == RefText(path, k)
  IN IF BracedRefAt(path, k) THEN SubSeq(text, 3, Len(text) - 1) ELSE SubSeq(text, 2, Len(text))

\* the path with every reference to a set variable replaced by its value,
\* read from position k on
RECURSIVE Expanded(_, _, _)
Expanded(path, env, k) ==
  IF k > Len(path) THEN <<>>
  ELSE IF BracedRefAt(path, k) \/ PlainRefAt(path, k) THEN
    (IF RefVar(path, k) \in env THEN EnvValue(RefVar(path, k)) ELSE RefText(path, k))
      \o Expanded(path, env, k + Len(RefText(path, k)))
  ELSE <<path[k]>> \o Expanded(path, env, k + 1)

\* the path holds the text of a reference to a set variable nowhere
RECURSIVE ReferencesNoSetVariable(_, _, _)
ReferencesNoSetVariable(path, env, k) ==
  IF k > Len(path) THEN TRUE
  ELSE IF BracedRefAt(path, k) \/ PlainRefAt(path, k) THEN
    /\ RefVar(path, k) \notin env
    /\ ReferencesNoSetVariable(path, env, k + Len(RefText(path, k)))
  ELSE ReferencesNoSetVariable(path, env, k + 1)

\* C20: resolve_path_with_environment replaces every $VAR and ${VAR} whose
\* variable is set by exactly its value and leaves everything else as it was:
\* references to unset variables, an unterminated ${, a lone $, ${} and all
\* other characters; with no set variable referenced the result is the input.
C20_ResolvesSetReferencesOnly ==
  (call.fn = "resolve_path_with_environment" /\ call.done) =>
    /\ call.ret = Expanded(call.path, call.env, 1)
    /\ ReferencesNoSetVariable(call.path, call.env, 1) => call.ret = call.path

C20_Witness ==
  /\ call.fn = "resolve_path_with_environment"
  /\ call.done
  /\ call.path = <<"$", "A", "/", "$", "{">>
  /\ call.ret = <<"h", "$", "A", "/", "$", "{">>

(* ---- properties of Target::Target ---- *)

InCtor == call.fn = "Target::Target"

\* the keys a section may hold once at most
ScalarKeys ==
  { "path", "name", "elavated", "dest", "compress_program", "compress_level", "encrypt",
    "one_file_system", "elavate_program" }

\* C14: a target section with two or more values for a scalar key makes the
\* constructor end the run with status 1, whatever the options (--destdir
\* included).
C14_DuplicateScalarKeyIsFatal ==
  /\ (InCtor /\ call.lookup.key \in ScalarKeys /\ Len(call.lookup.vals) >= 2)
       => (pc = "exit" /\ exit_status = 1)
  /\ (InCtor /\ Len(call.compress_level) >= 2) => pc # "constructed"

\* the first word of a command line
ProgramName(command) ==
  LET spaces == {k \in DOMAIN command : command[k] = " "}
  IN IF spaces = {} THEN command
     ELSE SubSeq(command, 1, (CHOOSE k \in spaces : \A h \in spaces : k <= h) - 1)

\* YYYY-MM-DD
IsoDate(day) ==
  Decimal(day.year, 4) \o <<"-">> \o Decimal(day.mon, 2) \o <<"-">> \o Decimal(day.mday, 2)

\* C18: the destination file is named name_YYYY-MM-DD.tar.<compression
\* program's name>, with .gpg appended exactly for an encrypted target, with a
\* configured compress_program and with the default one alike.
C18_DestinationFileName ==
  (InCtor /\ pc = "constructed") =>
    call.this.destfile =
      PathJoin(call.this.destdir,
               call.this.name \o <<"_">> \o IsoDate(call.day) \o <<".tar.">>
                 \o ProgramName(call.this.compress_program)
                 \o (IF call.this.encrypt THEN <<".gpg">> ELSE <<>>))

\* C19: the destination directory is the --destdir value if given; else the
\* target's own dest value; else the global default_dest if defined exactly
\* once (more than once ends the run with status 1); else $HOME/Backups with
\* HOME expanded.
C19_DestdirPrecedence ==
  (InCtor /\ call.lookup.key = "dest") =>
    LET dests == call.lookup.vals
        chosen(dir) == pc = "ctor_compress" /\ call.this.destdir = dir
    IN IF options.destdir # <<>> THEN chosen(options.destdir)
       ELSE IF Len(dests) = 1 THEN chosen(Expanded(dests[1], call.env, 1))
       ELSE IF Len(dests) > 1 THEN TRUE
       ELSE IF Len(call.default_dest) = 1
         THEN chosen(Expanded(call.default_dest[1], call.env, 1))
       ELSE IF Len(call.default_dest) > 1 THEN pc = "exit" /\ exit_status = 1
       ELSE chosen(Expanded(HomeBackups, call.env, 1))

C19_Witness ==
  /\ InCtor
  /\ call.lookup.key = "dest"
  /\ Len(call.lookup.vals) = 1
  /\ options.destdir = <<"$", "A">>
  /\ call.env # {}
  /\ call.this.destdir = options.destdir

(* ---- properties of main ---- *)

MainEnded == pc \in {"exit", "done"}

\* the run loop has taken no target: nothing was forked
NothingSpawned == tidx = 0 /\ procs = <<>>

HelpPrinted == cli.help /\ exit_status = 0 /\ out_stdout = <<"help_format">>

IsTargetSection(sec) == sec.name = "target"

\* the names of the target sections among the first n sections
ConfiguredNames(n) ==
  LET secs == SelectSeq(SubSeq(parsed_config, 1, n), IsTargetSection)
  IN [k \in DOMAIN secs |-> secs[k].target_name]

NamesOf(ts) == [k \in DOMAIN ts |-> ts[k].name]

\* C15: a section that is neither the global one nor a target section is
\* reported and skipped: the run goes on, and the targets of the other
\* sections are constructed and, when asked for, all kept for the run.
C15_InvalidSectionSkipped ==
  /\ (pc = "sections" /\ nsec >= 1 /\ parsed_config[nsec].name \notin {"", "target"})
       => ("Invalid section, ignoring" \in out_stderr /\ exit_status = -1)
  /\ pc \in {"sections", "check_all"} => NamesOf(targets) = ConfiguredNames(nsec)
  /\ (pc = "check_found" /\ options.targets = <<All>>)
       => NamesOf(targets) = ConfiguredNames(Len(parsed_config))

C15_Witness ==
  /\ pc = "loop"
  /\ tidx = 0
  /\ ntargets >= 1
  /\ "Invalid section, ignoring" \in out_stderr

\* what is logged for a failed fork or exec, and for a configuration or
\* target-list error
SpawnErrors ==
  {"fork failed, can't run hook", "execvp() failed", "fork() call failed", "fork() failed"}
ConfigErrors == {"config file does not exist", "invalid target section"}
ValidationErrors ==
  { "target all called simultaneously to other targets", "target requested multiple times",
    "target not found" }

\* C16: the exit status is 1 whenever a configuration error, a target-list
\* error or a spawn error (failed fork or exec of a stage or a hook) occurred,
\* and 0 only after a run without error or after the help text.
C16_ExitStatusTellsErrors ==
  MainEnded =>
    /\ (out_stderr \cap (SpawnErrors \cup ConfigErrors \cup ValidationErrors) # {})
         => exit_status = 1
    /\ exit_status = 0 => (pc = "done" \/ HelpPrinted)

\* C17: the job limit run_hooks compares the running count against is at
\* least 1, whatever number -j / --jobs was given.
C17_JobLimitAtLeastOne == batch # "none" => jobs >= 1

(* ---- properties of the passphrase, the hooks and the pipeline ---- *)

\* C21: an encrypted target's pipeline is spawned with a non-empty passphrase,
\* and between the moment that passphrase is obtained (set_passphrase stored
\* it in the target the loop copies) and the moment the target's archiver is
\* spawned, no hook or pipeline process is spawned.
C21_PassphraseJustBeforePipeline ==
  /\ (target.encrypt /\ target.children # <<>>) => obs.given_pass # <<>>
  /\ (target.encrypt /\ obs.given_pass # <<>> /\ target.children = <<>>) => procs = <<>>

\* the positions of run_main
InRunMain == pc \in {"run_main", "rm_fork_tar", "rm_fork_gpg", "rm_write", "rm_close",
                     "rm_fork_plain"}

\* C22: a failed hook halts neither its batch nor the run: the scheduler goes
\* on starting the remaining hooks and returns only when every hook was
\* started; after a batch, with or without failures, main goes on to the
\* pipeline (before-hooks) or to the next target (end-hooks), and the run ends
\* early only inside run_main.
C22_HookFailureHaltsNothing ==
  /\ [](obs.b.any_failed =>
         /\ (pc = "rh_loop" /\ num_hooks > 0 /\ MaySpawn) => ENABLED RhSpawn
         /\ pc = "rh_done" => \A k \in DOMAIN hooks : hooks[k].ran)
  /\ [][ /\ pc = "rh_done" => pc' = (IF batch = "before" THEN "run_main" ELSE "loop")
         /\ pc' = "exit" => InRunMain ]_vars

C22_Witness == pc = "run_main" /\ obs.b.any_failed /\ tidx = 2

\* the cipher stage failed to start after the archiver was spawned: its fork
\* failed, or its child ended without having exec'ed
CipherFailedToStart ==
  \/ pc = "exit" /\ "fork() failed" \in out_stderr
  \/ \E p \in DOMAIN procs :
       procs[p].kind = "gpg" /\ procs[p].st = "zombie" /\ ~procs[p].execd

\* C23: whenever the cipher stage fails to start after the archiver was
\* spawned (fork or exec failure), the archiver has received a termination
\* signal and runs no longer; and no process was ended by the engine's signal
\* in any other situation.
C23_ArchiverSignalledIffCipherFails ==
  /\ CipherFailedToStart =>
       \A p \in DOMAIN procs : procs[p].kind = "tar" => procs[p].st # "running"
  /\ \A p \in DOMAIN procs :
       (procs[p].st = "zombie" /\ procs[p].wstatus = SignaledStatus(SIGTERM)) =>
         (procs[p].kind = "tar" /\ CipherFailedToStart)

\* C24: with a job limit of at least 1 and hooks that exit, run_hooks returns;
\* a hook process is forked only by the step that starts a hook not started
\* before, a started hook is never started again, and at the return every hook
\* of the list was started.
C24_RunHooksReturns ==
  /\ (jobs >= 1 /\ batch # "none") ~> (pc = "rh_done")
  /\ [](pc = "rh_done" => \A k \in DOMAIN hooks : hooks[k].ran)
  /\ [][ /\ \A k \in DOMAIN hooks \cap DOMAIN hooks' :
              hooks[k].ran => (hooks'[k].ran /\ hooks'[k].cpid = hooks[k].cpid)
         /\ \A p \in HookProcs' \ HookProcs :
              \E k \in DOMAIN hooks :
                ~hooks[k].ran /\ hooks'[k].cpid = p /\ HookProcs' = HookProcs \cup {p}
       ]_vars

C24_Witness ==
  /\ pc = "rh_done" /\ jobs = 1 /\ Len(hooks) >= 3
  /\ \A k \in DOMAIN hooks : hooks[k].cpid # NoPid

\* C25: has_exited returns true only for a hook whose process has ended, so
\* the poll pass reaches wait() only for such a hook and never blocks there
\* on a hook that is still running.
C25_PollReportsOnlyEndedHooks ==
  pc = "rh_poll_wait" =>
    LET h == hooks[i + 1]
    IN /\ h.cpid \in DOMAIN procs => procs[h.cpid].st # "running"
       /\ ~WaitBlocks(h)

\* the hooks of the batch whose process is started and not yet reaped, and
\* those whose fork failed
UnreapedHooks == {k \in DOMAIN hooks : hooks[k].ran /\ hooks[k].cpid \in DOMAIN procs}
FailedHooks == {k \in DOMAIN hooks : hooks[k].failed}

\* C26: between two rounds of the scheduler, running_children is the number
\* of hooks started and not yet reaped (a hook whose fork failed may or may
\* not be counted), and it is never negative.
C26_RunningChildrenCountsUnreaped ==
  /\ batch # "none" => running_children >= 0
  /\ pc = "rh_loop" =>
       /\ running_children >= Cardinality(UnreapedHooks)
       /\ running_children <= Cardinality(UnreapedHooks) + Cardinality(FailedHooks)

\* the processes that hold the write end of the current data pipe; 0 stands
\* for the engine itself
DataWriteEndHolders ==
  {p \in DOMAIN procs : Holds(procs[p].fds, PipeEnd(tidx, "data", "w"))}
    \cup (IF Holds(fds, PipeEnd(tidx, "data", "w")) THEN {0} ELSE {})

\* C27 as stated: once run_main has returned for an encrypted target, the
\* archiver child is the only process that holds the data pipe's write end.
C27_OnlyArchiverHoldsWriteEnd ==
  (target.encrypt /\ AfterRunMain) =>
    \A p \in DataWriteEndHolders : p # 0 /\ procs[p].kind = "tar"

\* C27: once run_main has returned for an encrypted target, the data pipe's
\* write end is held by the archiver child and, until it exec's, by the cipher
\* child only; so once the cipher has exec'ed and the archiver has ended, no
\* write end is left and the cipher reads end-of-input, and wait_main is held
\* up only by a stage that still runs.
C27_WriteEndNotRetained ==
  (target.encrypt /\ AfterRunMain) =>
    /\ \A p \in DataWriteEndHolders :
         /\ p # 0
         /\ procs[p].kind = "tar" \/ (procs[p].kind = "gpg" /\ ~procs[p].execd)
    /\ (\A p \in StageProcs : procs[p].kind = "tar" => procs[p].st # "running")
         => \A p \in DataWriteEndHolders : procs[p].kind = "gpg" /\ ~procs[p].execd
    /\ (pc = "wait_main" /\ \A p \in StageProcs : procs[p].st # "running")
         => ENABLED (WaitMain \/ WaitMainReturns)

C27_Witness ==
  /\ pc = "wait_main" /\ target.encrypt /\ DataWriteEndHolders = {}
  /\ \E p, q \in StageProcs :
       /\ procs[p].kind = "tar" /\ procs[p].st = "zombie" /\ procs[p].execd
       /\ procs[q].kind = "gpg" /\ procs[q].st = "running" /\ procs[q].execd

\* the three assignments a hook command starts with, as the shell reads them
HookAssignments(this) ==
  <<"BACKMAN_TARGET_DESTFILE=\"">> \o this.destfile
    \o <<"\" BACKMAN_TARGET_NAME=\"">> \o this.name
    \o <<"\" BACKMAN_TARGET_DESTDIR=\"">> \o this.destdir \o <<"\"">>

\* C28: the command of every before-hook and end-hook is the three
\* assignments, then a blank that ends the last assignment's word, then the
\* configured command.
C28_HookCommandAfterAssignments ==
  (InCtor /\ pc = "constructed") =>
    LET this == call.this
        env == HookAssignments(this)
        separated(cmd) ==
          /\ IsPrefix(env, cmd)
          /\ Len(cmd) > Len(env) + 1
          /\ cmd[Len(env) + 1] = " "
          /\ cmd[Len(env) + 2] # " "
    IN /\ \A k \in DOMAIN this.before_hooks : separated(this.before_hooks[k])
       /\ \A k \in DOMAIN this.end_hooks : separated(this.end_hooks[k])

(* ---- properties of the resolved target list ---- *)

\* the name was asked for on the command line, by itself or by `all`
Requested(name) ==
  options.all_targets \/ \E j \in DOMAIN options.targets : options.targets[j] = name

\* C29: after resolution the targets to run are the configured targets that
\* were asked for (all of them for `all`), in the order of the configuration
\* file; the run loop runs that many targets; and every passphrase prompt
\* printed names a target that was asked for.
C29_ResolutionSelectsRequested ==
  /\ [](pc = "check_found" =>
          NamesOf(targets) = SelectSeq(ConfiguredNames(Len(parsed_config)), Requested))
  /\ [](pc \in {"resolve", "check_found"} =>
          \A p \in DOMAIN out_stdout :
            out_stdout[p] \in {"Passphrase for target \"", "Confirm passphrase for target \""}
              => Requested(<<out_stdout[p + 1]>>))
  /\ [][(pc = "check_found" /\ pc' = "loop") =>
          ntargets' = Len(SelectSeq(ConfiguredNames(Len(parsed_config)), Requested))]_vars

C29_Witness ==
  /\ pc = "check_found"
  /\ NamesOf(targets) = <<<<"db">>>>
  /\ ConfiguredNames(Len(parsed_config)) = <<<<"web">>, <<"db">>>>
  /\ targets[1].encrypt
  /\ Len(out_stdout) = 6

\* C30: the targets a run executes have non-empty names that differ from one
\* another: the vector the run loop is entered with, every element of which
\* the loop executes, holds no empty name and no name twice.
C30_ExecutedNamesUnique ==
  [][(pc = "check_found" /\ pc' = "loop") =>
       /\ \A k \in DOMAIN targets : targets[k].name # <<>>
       /\ \A p, q \in DOMAIN targets : targets[p].name = targets[q].name => p = q]_vars

\* C31: while the run loop works on a target, no step of run_before_hooks,
\* run_main, wait_main or run_end_hooks changes a configuration field of that
\* Target: its encrypt flag and its passphrase stay as they were constructed
\* and resolved.
C31_TargetReadOnlyInRun ==
  [][tidx' = tidx =>
       /\ target'.encrypt = target.encrypt
       /\ target'.passphrase = target.passphrase]_vars

\* the errors parse_args logs for an option whose argument is missing
MissingArgumentErrors ==
  { "option --config requires argument", "option -c requires argument",
    "option --jobs requires argument", "option --destdir requires argument" }

\* C33: once parse_args has found an option that requires an argument as the
\* last word, the program goes nowhere but to its exit with status 1: it
\* loads no configuration and runs no target.
C33_MissingArgumentEndsProgram ==
  (MissingArgumentErrors \cap out_stderr # {}) =>
    /\ pc \in {"parse_args", "exit"}
    /\ pc = "exit" => exit_status = 1
    /\ NothingSpawned

(* ------------------------------ ini_parse ------------------------------ *)

\* bounds: lines of a configuration, and sections ini_parse may construct
\* before the model stops following it
MaxLines == 3
MaxSections == 4

\* the lines a configuration is drawn from, character by character: empty,
\* comment, section headers (plain, indented, unclosed, unnamed, with trailing
\* text), a field, and a line INI_Field rejects
ParserLines ==
  { <<>>, <<"#", "a">>, <<"[", "a", "]">>, <<" ", "[", "a", "]">>, <<"[", "a">>,
    <<"[", " ", "]">>, <<"[", "a", "]", "b">>, <<"a", "=", "b">>, <<"=", "b">> }

\* std::string::find_first_not_of as a 1-based position, 0 for npos (of the
\* characters of ws, the vertical tab is in no line here)
FirstNotOf(s, t) ==
  IF \A k \in DOMAIN s : s[k] \in t THEN 0
  ELSE CHOOSE k \in DOMAIN s : s[k] \notin t /\ \A m \in 1 .. k - 1 : s[m] \in t

is_comment_or_empty(line) ==
  LET first == FirstNotOf(line, {" ", "\t", "\n", "\r", "\f"})
  IN first = 0 \/ line[first] \in {";", "#"}

\* INI_Field's constructor returns rather than throws: the name before the
\* first blank or '=' is not empty and made of letters, digits and '_'
FieldAccepted(line) ==
  LET first == FirstNotOf(line, {" ", "\t", "\n", "\r", "\f"})
      rest == SubSeq(line, first, Len(line))
      stop == FirstNotOf(rest, {"a", "b", "_"})
  IN /\ stop # 1
     /\ stop # 0 => rest[stop] \in {" ", "\t", "="}

\* the header part of INI_Section's constructor on one line: what it throws,
\* or the name it stores and whether it warns about trailing text
SectionHeader(header) ==
  LET first == FirstNotOf(header, {" ", "\t", "\r"})
      closing == {k \in DOMAIN header : k > first /\ header[k] = "]"}
      end == CHOOSE k \in closing : \A m \in closing : k <= m
      name == SubSeq(header, first + 1, end - 1)
      name_start == FirstNotOf(name, {" ", "\t", "\r"})
      name_end == CHOOSE k \in DOMAIN name :
                    /\ name[k] \notin {" ", "\t", "\r"}
                    /\ \A m \in k + 1 .. Len(name) : name[m] \in {" ", "\t", "\r"}
  IN IF first = 0 \/ header[first] # "[" THEN [throws |-> "Bad section header"]
     ELSE IF closing = {}
       THEN [throws |-> "Missing closing bracket in section header"]
     ELSE IF name_start = 0 THEN [throws |-> "Bad section name"]
     ELSE [throws |-> "", name |-> SubSeq(name, name_start, name_end),
           warns |-> ~is_comment_or_empty(SubSeq(header, end + 1, Len(header)))]

\* the field loop of INI_Section's constructor from current_line (0-based) on:
\* where it stops, the lines it kept as fields and whether it warned
RECURSIVE ParseFields(_, _, _, _)
ParseFields(lines, current_line, fields, warned) ==
  IF ~(current_line < Len(lines))
    THEN [current_line |-> current_line, fields |-> fields, warned |-> warned]
  ELSE LET line == lines[current_line + 1]
           first == FirstNotOf(line, {" ", "\t", "\r"})
       IN IF is_comment_or_empty(line)
            THEN ParseFields(lines, current_line + 1, fields, warned)
          ELSE IF first # 0 /\ line[first] = "["
            THEN [current_line |-> current_line, fields |-> fields, warned |-> warned]
          ELSE IF FieldAccepted(line)
            THEN ParseFields(lines, current_line + 1, Append(fields, line), warned)
          ELSE ParseFields(lines, current_line + 1, fields, TRUE)

\* ini_parse(std::vector<std::string>) is entered: i = 0, ini_data empty
InitParse ==
  /\ call \in [fn : {"ini_parse"}, ini_source : SeqsUpTo(ParserLines, MaxLines),
               i : {0}, ini_data : {<<>>}, at : {"loop"}]
  /\ jobs = 1
  /\ ntargets = 0
  /\ EngineAt("call")
  /\ StartUpOver

\* ini_data.emplace_back(ini_source, i, true): the unnamed global section
IniSectionGlobal ==
  /\ call.fn = "ini_parse" /\ call.at = "loop"
  /\ call.i # Len(call.ini_source)
  /\ Len(call.ini_data) < MaxSections
  /\ call.i = 0
  /\ LET f == ParseFields(call.ini_source, call.i, <<>>, FALSE)
     IN /\ call' = [call EXCEPT !.i = f.current_line,
                                !.ini_data = Append(@, [name |-> <<>>, fields |-> f.fields])]
        /\ out_stderr' = IF f.warned THEN out_stderr \cup {"Ignoring line"} ELSE out_stderr
  /\ UNCHANGED << jobs, ntargets, argc, options, parsed_config, section, nsec, targets,
                  cli, tidx, target, pc, exit_status, batch, hookVars, hooks_ret, procs,
                  fds, pipefds, secret_buf, out_stdout, obs >>

\* ini_data.emplace_back(ini_source, i, false): a section with a header
IniSectionNamed ==
  /\ call.fn = "ini_parse" /\ call.at = "loop"
  /\ call.i # Len(call.ini_source)
  /\ Len(call.ini_data) < MaxSections
  /\ call.i # 0
  /\ LET h == SectionHeader(call.ini_source[call.i + 1])
         f == ParseFields(call.ini_source, call.i + 1, <<>>, FALSE)
     IN /\ h.throws = ""
        /\ call' = [call EXCEPT !.i = f.current_line,
                                !.ini_data = Append(@, [name |-> h.name, fields |-> f.fields])]
        /\ out_stderr' = out_stderr
                           \cup (IF h.warns THEN {"Unknown text after section label"} ELSE {})
                           \cup (IF f.warned THEN {"Ignoring line"} ELSE {})
  /\ UNCHANGED << jobs, ntargets, argc, options, parsed_config, section, nsec, targets,
                  cli, tidx, target, pc, exit_status, batch, hookVars, hooks_ret, procs,
                  fds, pipefds, secret_buf, out_stdout, obs >>

\* the constructor throws std::runtime_error out of ini_parse
IniSectionThrows ==
  /\ call.fn = "ini_parse" /\ call.at = "loop"
  /\ call.i # Len(call.ini_source)
  /\ Len(call.ini_data) < MaxSections
  /\ call.i # 0
  /\ SectionHeader(call.ini_source[call.i + 1]).throws # ""
  /\ call' = [call EXCEPT !.at = "thrown"]
  /\ UNCHANGED << jobs, ntargets, argc, options, parsed_config, section, nsec, targets,
                  cli, tidx, target, pc, exit_status, batch, hookVars, hooks_ret, procs,
                  ioVars, obs >>

\* i == ini_source.size(): return ini_data
IniReturn ==
  /\ call.fn = "ini_parse" /\ call.at = "loop"
  /\ call.i = Len(call.ini_source)
  /\ call' = [call EXCEPT !.at = "returned"]
  /\ UNCHANGED << jobs, ntargets, argc, options, parsed_config, section, nsec, targets,
                  cli, tidx, target, pc, exit_status, batch, hookVars, hooks_ret, procs,
                  ioVars, obs >>

SpecParse ==
  InitParse /\ [][IniSectionGlobal \/ IniSectionNamed \/ IniSectionThrows \/ IniReturn]_vars

\* C32: every construction of an INI_Section in ini_parse's loop leaves the
\* current-line index at least one further than it found it, the first
\* construction on a configuration that begins with a section header included.
C32_SectionAdvancesLine ==
  [][(call.fn = "ini_parse" /\ Len(call'.ini_data) > Len(call.ini_data))
       => call'.i > call.i]_vars

\* C34: run_hooks consumes the hook vector from its end. The hooks that were
\* run are exactly those above num_hooks, so a hook is never run before the
\* one that follows it in the configured order; and the hook a poll pass
\* tests or waits for is one that was run.
C34_HooksConsumedFromEnd ==
  /\ \A k \in DOMAIN hooks : hooks[k].ran <=> k > num_hooks
  /\ \A k \in 2 .. Len(hooks) : hooks[k - 1].ran => hooks[k].ran
  /\ ENABLED RhPollHasExited => hooks[i + 1].ran
  /\ pc = "rh_poll_wait" => hooks[i + 1].ran

\* a poll pass has found an exited hook while the first two hooks of three or
\* more are still in the queue
C34_Witness ==
  /\ pc = "rh_poll_wait"
  /\ Len(hooks) >= 3
  /\ num_hooks >= 2
  /\ hooks[Len(hooks)].ran


====
